---- MODULE Spec2Model ----
(***************************************************************************)
(* Region layout of the burnbench terminal dashboard                       *)
(* (backend-comparison/src/burnbenchapp/tui/components/regions.rs).        *)
(*                                                                         *)
(* A frame is split horizontally into a left and a right column, each      *)
(* column is split vertically into its slots, and draw renders one block   *)
(* per slot into the rectangle looked up for it.                           *)
(***************************************************************************)
EXTENDS Integers, Sequences, FiniteSets, TLC

VARIABLES
    cfg,        \* what get_region_info / get_rect_info return (percentages)
    frame,      \* frame.size(): the Rect of the terminal
    pc,         \* position of the redraw callback
    outer,      \* outer_layout of Regions::new
    left,       \* Regions.left
    right,      \* Regions.right
    rendered,   \* the render_widget calls of the running draw, in order
    lookup,     \* the last Region::rect call on left/right and its result
    builtFrom,  \* the frame size Regions::new was called with
    prev,       \* an earlier redraw, remembered: its frame and its regions
    probe,      \* a Region obtained from Region::new
    probed      \* the last Region::rect call on probe and its result

vars == <<cfg, frame, pc, outer, left, right, rendered, lookup, builtFrom,
          prev, probe, probed>>

\* ------------------------------------------------------------------ bounds

MaxW == 5
MaxH == 5
MaxProbe == 3

\* No value, and the outcome of an index out of range.
None == [none |-> TRUE]
Panic == [panic |-> TRUE]
U16 == 65536

\* ------------------------------------------------------------- rectangles

Rect(x, y, w, h) == [x |-> x, y |-> y, width |-> w, height |-> h]

Horizontal == "Horizontal"
Vertical == "Vertical"

RECURSIVE Sum(_)
Sum(s) == IF s = <<>> THEN 0 ELSE Head(s) + Sum(Tail(s))

\* Sum of the first k entries of s.
Cum(s, k) == Sum(SubSeq(s, 1, k))

\* f64::round of n/100 for n >= 0: halves round away from zero.
Round100(n) == (n + 50) \div 100

\* Layout::split along dir, when constraint j takes up what the percentages
\* leave of the area (nothing when they sum to 100).  The elements are
\* adjacent, the first starts at the area's start and the last ends at its
\* end; every other element has size area_size * percent; each start and
\* end is rounded.
SplitWith(area, dir, pcts, j) ==
    LET start == IF dir = Horizontal THEN area.x ELSE area.y
        size  == IF dir = Horizontal THEN area.width ELSE area.height
        slack == 100 * size - size * Sum(pcts)
        B(k)  == Round100(100 * start + size * Cum(pcts, k)
                          + IF k >= j THEN slack ELSE 0)
    IN  [i \in 1..Len(pcts) |->
            IF dir = Horizontal
            THEN Rect(B(i - 1), area.y, B(i) - B(i - 1), area.height)
            ELSE Rect(area.x, B(i - 1), area.width, B(i) - B(i - 1))]

\* The results Layout::split can give: one when the percentages sum to 100.
Splits(area, dir, pcts) ==
    LET size == IF dir = Horizontal THEN area.width ELSE area.height
    IN  IF pcts = <<>> THEN {<<>>}
        ELSE {SplitWith(area, dir, pcts, j) :
                j \in {i \in 1..Len(pcts) :
                         size * pcts[i] + 100 * size - size * Sum(pcts) >= 0}}

\* ---------------------------------------------------------- configuration

LeftRegion == <<"Top", "Middle", "Bottom">>
RightRegion == <<"Top", "Bottom">>

Columns == {"Left", "Right"}
SlotsOf(col) == IF col = "Left" THEN LeftRegion ELSE RightRegion
SlotSet(col) == {SlotsOf(col)[i] : i \in 1..Len(SlotsOf(col))}

\* LeftRectInfo with the Bottom slot given 20 percent.
LeftRectInfo_bottom20 ==
    [Top    |-> [index |-> 0, title |-> "Backend", height_percentage |-> 30,
                 hotkey |-> "b"],
     Middle |-> [index |-> 1, title |-> "Benches", height_percentage |-> 60,
                 hotkey |-> "n"],
     Bottom |-> [index |-> 2, title |-> "Action", height_percentage |-> 20,
                 hotkey |-> "a"]]

LeftRectInfo ==
    [Top    |-> [index |-> 0, title |-> "Backend", height_percentage |-> 30,
                 hotkey |-> "b"],
     Middle |-> [index |-> 1, title |-> "Benches", height_percentage |-> 60,
                 hotkey |-> "n"],
     Bottom |-> [index |-> 2, title |-> "Action", height_percentage |-> 10,
                 hotkey |-> "a"]]

RightRectInfo ==
    [Top    |-> [index |-> 0, title |-> "Results", height_percentage |-> 90,
                 hotkey |-> "r"],
     Bottom |-> [index |-> 1, title |-> "Progress", height_percentage |-> 10,
                 hotkey |-> "p"]]

LeftWidthPercentage == 25

\* The configuration as the source declares it.
StaticCfg ==
    [lw |-> LeftWidthPercentage,
     Left  |-> [s \in SlotSet("Left") |-> LeftRectInfo[s].height_percentage],
     Right |-> [s \in SlotSet("Right") |-> RightRectInfo[s].height_percentage]]

\* Configurations a maintainer can declare in get_rect_info: the source's,
\* one whose left heights sum to 110, one whose right heights sum to 95.
Cfgs ==
    {StaticCfg,
     [StaticCfg EXCEPT !.Left = [@ EXCEPT !["Bottom"] = 20]],
     [StaticCfg EXCEPT !.Right = [@ EXCEPT !["Bottom"] = 5]]}

\* T::get_region_info().width_percentage; the right one is a u16 subtraction.
get_region_info(col) ==
    [width_percentage |->
        IF col = "Left" THEN cfg.lw ELSE (100 - cfg.lw) % U16]

\* get_rect_info with the indices of the first two slots exchanged.
get_rect_info_swapped(col, slot) ==
    LET info == IF col = "Left" THEN LeftRectInfo[slot] ELSE RightRectInfo[slot]
    IN  [info EXCEPT !.height_percentage = cfg[col][slot],
                     !.index = IF @ = 0 THEN 1 ELSE IF @ = 1 THEN 0 ELSE @]

\* position.get_rect_info()
get_rect_info(col, slot) ==
    LET info == IF col = "Left" THEN LeftRectInfo[slot] ELSE RightRectInfo[slot]
    IN  [info EXCEPT !.height_percentage = cfg[col][slot]]

\* ----------------------------------------------------------- Regions::new

\* OuterConstraints with the two columns exchanged.
OuterConstraints_swapped ==
    <<get_region_info("Right").width_percentage,
      get_region_info("Left").width_percentage>>

\* The constraints of outer_layout, in the order the source lists them.
OuterConstraints ==
    <<get_region_info("Left").width_percentage,
      get_region_info("Right").width_percentage>>

\* LeftConstraints without the constraint of the Bottom slot.
LeftConstraints_dropped ==
    <<get_rect_info("Left", "Top").height_percentage,
      get_rect_info("Left", "Middle").height_percentage>>

\* LeftConstraints with Top and Middle exchanged.
LeftConstraints_swapped ==
    <<get_rect_info("Left", "Middle").height_percentage,
      get_rect_info("Left", "Top").height_percentage,
      get_rect_info("Left", "Bottom").height_percentage>>

\* The constraints of left_rects, in the order the source lists them.
LeftConstraints ==
    <<get_rect_info("Left", "Top").height_percentage,
      get_rect_info("Left", "Middle").height_percentage,
      get_rect_info("Left", "Bottom").height_percentage>>

\* The constraints of right_rects, in the order the source lists them.
RightConstraints ==
    <<get_rect_info("Right", "Top").height_percentage,
      get_rect_info("Right", "Bottom").height_percentage>>

\* The three Layout splits of Regions::new on the rectangle area: the outer
\* split, then the split of outer_layout[0] into the left slots and of
\* outer_layout[1] into the right slots.
Layouts(area) ==
    UNION {{[outer |-> o, left_rects |-> l, right_rects |-> r] :
                l \in Splits(o[1], Vertical, LeftConstraints),
                r \in Splits(o[2], Vertical, RightConstraints)} :
            o \in Splits(area, Horizontal, OuterConstraints)}

\* Region::new(rects) for the column t (the type parameter).
Region(t, rects) == [t |-> t, rects |-> rects, info |-> get_region_info(t)]

\* Regions::new_with_rect(left_rects, right_rects)
new_with_rect(left_rects, right_rects) ==
    [left  |-> [t |-> "Left", rects |-> left_rects,
                info |-> get_region_info("Left")],
     right |-> [t |-> "Right", rects |-> right_rects,
                info |-> get_region_info("Right")]]

\* NewRegions splitting a rectangle of the frame's height by its width.
NewRegions_transposed(f) ==
    {[outer |-> s.outer,
      regions |-> new_with_rect(s.left_rects, s.right_rects)] :
        s \in Layouts(Rect(f.x, f.y, f.height, f.width))}

\* NewRegions whose result is not fixed by f: the layout of f or that of
\* the rectangle of the frame's height by its width.
NewRegions_unstable(f) ==
    {[outer |-> s.outer,
      regions |-> new_with_rect(s.left_rects, s.right_rects)] :
        s \in Layouts(f) \cup Layouts(Rect(f.x, f.y, f.height, f.width))}

\* Regions::new(frame): new_with_rect on the splits of frame.size(); the
\* outer layout is kept beside the regions.
NewRegions(f) ==
    {[outer |-> s.outer,
      regions |-> new_with_rect(s.left_rects, s.right_rects)] :
        s \in Layouts(f)}

\* ----------------------------------------------------- Region::rect, block

\* Region::rect(position): self.rects[index], a panic when the index is out
\* of range.
rect(self, position) ==
    LET index == get_rect_info(self.t, position).index
    IN  IF index < Len(self.rects) THEN self.rects[index + 1] ELSE Panic

\* Region::block(position): the title "<title> (<hotkey>)" and the padding.
block(self, position) ==
    [title |-> <<get_rect_info(self.t, position).title,
                 get_rect_info(self.t, position).hotkey>>,
     padding |-> [left |-> 10, right |-> 10, top |-> 2, bottom |-> 2]]

\* DrawCalls with the Bottom block of the left region drawn into rect(Top).
DrawCalls_crossed ==
    <<[region |-> "Left",  block |-> "Top",    rect |-> "Top"],
      [region |-> "Left",  block |-> "Middle", rect |-> "Middle"],
      [region |-> "Left",  block |-> "Bottom", rect |-> "Top"],
      [region |-> "Right", block |-> "Top",    rect |-> "Top"],
      [region |-> "Right", block |-> "Bottom", rect |-> "Bottom"]>>

\* The render_widget calls of Regions::draw, in the order of the source:
\* the region, the position given to block and the position given to rect.
DrawCalls ==
    <<[region |-> "Left",  block |-> "Top",    rect |-> "Top"],
      [region |-> "Left",  block |-> "Middle", rect |-> "Middle"],
      [region |-> "Left",  block |-> "Bottom", rect |-> "Bottom"],
      [region |-> "Right", block |-> "Top",    rect |-> "Top"],
      [region |-> "Right", block |-> "Bottom", rect |-> "Bottom"]>>

RegionOf(col) == IF col = "Left" THEN left ELSE right

\* ------------------------------------------------------------------ frames

Widths == (0..MaxW) \cup {100, 101}
Heights == (0..MaxH) \cup {40}
Frames == {Rect(0, 0, w, h) : w \in Widths, h \in Heights}

\* The rectangle sequences Region::new is given here.
ProbeRects == {Rect(0, 0, 0, 0), Rect(0, 0, 1, 1)}
ProbeSeqs == UNION {[1..n -> ProbeRects] : n \in 0..MaxProbe}

\* ----------------------------------------------------------------- actions

InitWith(c) ==
    /\ cfg = c
    /\ frame \in Frames
    /\ pc = "idle"
    /\ outer = <<>>
    /\ left = None
    /\ right = None
    /\ rendered = <<>>
    /\ lookup = None
    /\ builtFrom = None
    /\ prev = None
    /\ probe = None
    /\ probed = None

Init == InitWith(StaticCfg)

InitCfg == \E c \in Cfgs : InitWith(c)

\* The terminal is resized between two redraws.
Resize ==
    /\ pc = "idle"
    /\ \E f \in Frames : frame' = f
    /\ UNCHANGED <<cfg, pc, outer, left, right, rendered, lookup, builtFrom,
                   prev, probe, probed>>

\* Regions::new(frame), the first statement of a redraw.
RegionsNew ==
    /\ pc = "idle"
    /\ \E res \in NewRegions(frame) :
          /\ outer' = res.outer
          /\ left' = res.regions.left
          /\ right' = res.regions.right
    /\ builtFrom' = frame
    /\ rendered' = <<>>
    /\ lookup' = None
    /\ pc' = "draw"
    /\ UNCHANGED <<cfg, frame, prev, probe, probed>>

\* One render_widget call of Regions::draw.
DrawStep ==
    /\ pc = "draw"
    /\ LET c == DrawCalls[Len(rendered) + 1]
           r == rect(RegionOf(c.region), c.rect)
       IN  IF r = Panic
           THEN /\ pc' = "panic"
                /\ UNCHANGED rendered
           ELSE /\ rendered' =
                     Append(rendered,
                            [widget |-> block(RegionOf(c.region), c.block),
                             area |-> r])
                /\ pc' = IF Len(rendered) + 1 = Len(DrawCalls)
                         THEN "drawn" ELSE "draw"
    /\ UNCHANGED <<cfg, frame, outer, left, right, lookup, builtFrom, prev,
                   probe, probed>>

\* Region::rect(position) on regions.left or regions.right.
RegionRect ==
    /\ pc = "draw"
    /\ \E col \in Columns : \E slot \in SlotSet(col) :
          lookup' = [col |-> col, slot |-> slot,
                     result |-> rect(RegionOf(col), slot)]
    /\ UNCHANGED <<cfg, frame, pc, outer, left, right, rendered, builtFrom,
                   prev, probe, probed>>

\* The redraw returns: the Regions value is dropped.
RedrawEnd ==
    /\ pc = "drawn"
    /\ pc' = "idle"
    /\ outer' = <<>>
    /\ left' = None
    /\ right' = None
    /\ rendered' = <<>>
    /\ lookup' = None
    /\ builtFrom' = None
    /\ \/ prev' = prev
       \/ prev' = [frame |-> builtFrom, outer |-> outer,
                   regions |-> [left |-> left, right |-> right]]
    /\ UNCHANGED <<cfg, frame, probe, probed>>

Next == Resize \/ RegionsNew \/ DrawStep \/ RegionRect \/ RedrawEnd

Spec == Init /\ [][Next]_vars

\* The layout under every configuration of Cfgs.
SpecCfg == InitCfg /\ [][Next]_vars

\* Region::new(rects): a region over any rectangle sequence.
RegionNew ==
    /\ \E col \in Columns : \E rects \in ProbeSeqs :
          probe' = Region(col, rects)
    /\ probed' = None
    /\ UNCHANGED <<cfg, frame, pc, outer, left, right, rendered, lookup,
                   builtFrom, prev>>

\* The left or right region of Regions::new(frame), through new_with_rect.
RegionOfRegions ==
    /\ \E res \in NewRegions(frame) : \E col \in Columns :
          probe' = IF col = "Left" THEN res.regions.left
                   ELSE res.regions.right
    /\ probed' = None
    /\ UNCHANGED <<cfg, frame, pc, outer, left, right, rendered, lookup,
                   builtFrom, prev>>

\* Region::rect(position) on the region obtained.
ProbeRect ==
    /\ probe # None
    /\ \E slot \in SlotSet(probe.t) :
          probed' = [slot |-> slot, result |-> rect(probe, slot)]
    /\ UNCHANGED <<cfg, frame, pc, outer, left, right, rendered, lookup,
                   builtFrom, prev, probe>>

NextRegion == RegionNew \/ RegionOfRegions \/ ProbeRect

\* The regions the construction operations give, and the lookups on them.
SpecRegion == Init /\ [][NextRegion]_vars

\* ------------------------------------------------------------------ claims

Built == pc \in {"draw", "drawn"}

ColRect(col) == IF col = "Left" THEN outer[1] ELSE outer[2]

\* The percentages as the source declares them, by column and position.
DeclaredHeight(col, i) ==
    IF col = "Left" THEN <<30, 60, 10>>[i] ELSE <<90, 10>>[i]
DeclaredWidth(col) == IF col = "Left" THEN 25 ELSE 75

Abs(n) == IF n < 0 THEN 0 - n ELSE n

\* size is within one cell of dim * pct / 100.
WithinOneCell(size, dim, pct) == Abs(100 * size - dim * pct) <= 100

Heights_(rs) == [i \in 1..Len(rs) |-> rs[i].height]

\* C1: for every frame size, each column of Regions::new has as many
\* rectangles as slots (3 left, 2 right), and they partition the column
\* rectangle vertically: same x and width as the column, the first at the
\* column's y, each next one where the previous ends, the last ending where
\* the column ends, heights summing to the column height, each height
\* within one cell of its proportion.
C1_SlotsPartitionColumn ==
    Built =>
        \A col \in Columns :
            LET rs == RegionOf(col).rects
                c  == ColRect(col)
                n  == Len(SlotsOf(col))
            IN  /\ Len(rs) = n
                /\ n = IF col = "Left" THEN 3 ELSE 2
                /\ \A i \in 1..n :
                      /\ rs[i].x = c.x
                      /\ rs[i].width = c.width
                      /\ rs[i].height >= 0
                      /\ WithinOneCell(rs[i].height, c.height,
                                       DeclaredHeight(col, i))
                /\ rs[1].y = c.y
                /\ \A i \in 1..(n - 1) : rs[i + 1].y = rs[i].y + rs[i].height
                /\ rs[n].y + rs[n].height = c.y + c.height
                /\ Sum(Heights_(rs)) = c.height

\* A layout of a 5x5 frame, where no slot height is exact, was built.
C1_Witness ==
    /\ Built
    /\ frame.width = 5
    /\ frame.height = 5
    /\ Len(left.rects) = 3
    /\ Len(right.rects) = 2
    /\ left.rects[1].height = 2

\* C2: for every frame size, the two column rectangles of Regions::new are
\* side by side (left at the frame's x, right where left ends), both span
\* the frame's height, and their widths sum to the frame's width; the left
\* width is the rounded quarter and the right column takes the rest, so a
\* frame of width 101 gives widths 25 and 76.
C2_ColumnsCoverFrame ==
    Built =>
        /\ Len(outer) = 2
        /\ outer[1].x = frame.x
        /\ outer[2].x = outer[1].x + outer[1].width
        /\ \A i \in 1..2 :
              /\ outer[i].y = frame.y
              /\ outer[i].height = frame.height
              /\ outer[i].width >= 0
        /\ outer[1].width + outer[2].width = frame.width
        /\ Abs(100 * outer[1].width - 25 * frame.width) <= 50
        /\ frame.width = 101 => outer[1].width = 25 /\ outer[2].width = 76

\* A layout of a frame of width 101 was built.
C2_Witness ==
    /\ Built
    /\ frame.width = 101
    /\ outer[2].x = 25

\* C3 as stated: each column's width is round(frame.width * percentage / 100)
\* and each slot's height is round(column height * percentage / 100).
C3_EverySizeIsRounded ==
    Built =>
        \A col \in Columns :
            /\ ColRect(col).width
                   = Round100(frame.width * DeclaredWidth(col))
            /\ \A i \in 1..Len(RegionOf(col).rects) :
                  RegionOf(col).rects[i].height
                      = Round100(ColRect(col).height * DeclaredHeight(col, i))

\* dim * pct is a multiple of 100 for every percentage of the split.
AllExact(dim, pcts) == \A i \in 1..Len(pcts) : (dim * pcts[i]) % 100 = 0

\* C3, amended: each column's width and each slot's height is within one
\* cell of dimension * percentage / 100, and is exactly that when
\* dimension * percentage is a multiple of 100 for every element of the
\* split; a 100x40 frame gives the columns x in [0,25) and [25,100), both of
\* height 40, left heights 12, 24, 4 and right heights 36, 4.
C3_SizesProportional ==
    Built =>
        /\ \A col \in Columns :
              LET rs == RegionOf(col).rects
                  c  == ColRect(col)
              IN  /\ WithinOneCell(c.width, frame.width, DeclaredWidth(col))
                  /\ AllExact(frame.width, <<25, 75>>)
                        => 100 * c.width = frame.width * DeclaredWidth(col)
                  /\ \A i \in 1..Len(rs) :
                        /\ WithinOneCell(rs[i].height, c.height,
                                         DeclaredHeight(col, i))
                        /\ AllExact(c.height, IF col = "Left"
                                              THEN <<30, 60, 10>>
                                              ELSE <<90, 10>>)
                              => 100 * rs[i].height
                                     = c.height * DeclaredHeight(col, i)
        /\ (frame.width = 100 /\ frame.height = 40) =>
              /\ outer = <<Rect(0, 0, 25, 40), Rect(25, 0, 75, 40)>>
              /\ Heights_(left.rects) = <<12, 24, 4>>
              /\ Heights_(right.rects) = <<36, 4>>

\* The layout of the 100x40 frame was built and drawn.
C3_Witness ==
    /\ pc = "drawn"
    /\ frame = Rect(0, 0, 100, 40)
    /\ left.rects[2] = Rect(0, 12, 25, 24)

\* C4: in a Regions value of Regions::new the ordinals of each column are
\* 0..N-1 in declared order, N is the length of the column's rectangle
\* sequence, the i-th constraint of the split is the percentage of the slot
\* of ordinal i, and rect(slot) is in range for every slot and gives the
\* rectangle made from that slot's percentage.
C4_LookupGivesSlotRect ==
    Built =>
        /\ \A col \in Columns :
              LET rs    == RegionOf(col).rects
                  slots == SlotsOf(col)
                  cons  == IF col = "Left" THEN LeftConstraints
                           ELSE RightConstraints
              IN  /\ Len(rs) = Len(slots)
                  /\ Len(cons) = Len(slots)
                  /\ \A i \in 1..Len(slots) :
                        LET info == get_rect_info(col, slots[i])
                            r    == rect(RegionOf(col), slots[i])
                        IN  /\ info.index = i - 1
                            /\ cons[i] = DeclaredHeight(col, i)
                            /\ info.height_percentage = DeclaredHeight(col, i)
                            /\ r # Panic
                            /\ r = rs[i]
                            /\ WithinOneCell(r.height, ColRect(col).height,
                                             DeclaredHeight(col, i))
                            /\ frame.height = 40 =>
                                  100 * r.height = 40 * DeclaredHeight(col, i)
        /\ lookup # None =>
              /\ lookup.result # Panic
              /\ \E i \in 1..Len(SlotsOf(lookup.col)) :
                    /\ SlotsOf(lookup.col)[i] = lookup.slot
                    /\ lookup.result = RegionOf(lookup.col).rects[i]
                    /\ WithinOneCell(lookup.result.height,
                                     ColRect(lookup.col).height,
                                     DeclaredHeight(lookup.col, i))

\* rect(LeftRegion::Middle) was called on a layout of height 40.
C4_Witness ==
    /\ lookup # None
    /\ lookup.col = "Left"
    /\ lookup.slot = "Middle"
    /\ frame.height = 40
    /\ lookup.result.height = 24

\* C5 as stated: on every region obtained through Regions::new,
\* new_with_rect or Region::new, rect(slot) is in range for every slot of
\* the column: no region has fewer rectangles than its column has slots.
C5_LookupAlwaysInRange ==
    /\ probe # None => Len(probe.rects) >= Len(SlotsOf(probe.t))
    /\ probed # None => probed.result # Panic

\* The percentages of a configuration sum to 100 in both directions.
ValidCfg ==
    /\ Sum(OuterConstraints) = 100
    /\ Sum(LeftConstraints) = 100
    /\ Sum(RightConstraints) = 100

Inside(a, f) ==
    /\ a.x >= f.x
    /\ a.y >= f.y
    /\ a.x + a.width <= f.x + f.width
    /\ a.y + a.height <= f.y + f.height

ExpectedRenders ==
    <<<<"Left", 1, "Backend", "b">>,
      <<"Left", 2, "Benches", "n">>,
      <<"Left", 3, "Action", "a">>,
      <<"Right", 1, "Results", "r">>,
      <<"Right", 2, "Progress", "p">>>>

\* C8: draw issues exactly five render steps, in the order Left Top, Left
\* Middle, Left Bottom, Right Top, Right Bottom; the block of each slot is
\* rendered once, into the rectangle of that slot in that column; draw has
\* no error path.
C8_DrawOrder ==
    /\ pc # "panic"
    /\ pc = "draw" => Len(rendered) < 5
    /\ pc = "drawn" => Len(rendered) = 5
    /\ \A i \in 1..Len(rendered) :
          LET e == ExpectedRenders[i]
          IN  /\ rendered[i].widget.title = <<e[3], e[4]>>
              /\ rendered[i].area = RegionOf(e[1]).rects[e[2]]

\* A draw of a 5x40 frame, whose five rectangles all differ, finished.
C8_Witness ==
    /\ pc = "drawn"
    /\ Len(rendered) = 5
    /\ frame.width = 5
    /\ frame.height = 40
    /\ \A i, j \in 1..5 : i # j => rendered[i].area # rendered[j].area

\* C9: the static configuration is valid: the column widths are 25 and
\* 100 - 25 and sum to 100, the left heights 30, 60, 10 and the right heights
\* 90, 10 sum to 100, every percentage is in 0..100, and 100 - left width
\* does not underflow.
C9_StaticConfigValid ==
    /\ OuterConstraints = <<25, 75>>
    /\ Sum(OuterConstraints) = 100
    /\ LeftConstraints = <<30, 60, 10>>
    /\ Sum(LeftConstraints) = 100
    /\ RightConstraints = <<90, 10>>
    /\ Sum(RightConstraints) = 100
    /\ \A s \in SlotSet("Left") : LeftRectInfo[s].height_percentage \in 0..100
    /\ \A s \in SlotSet("Right") : RightRectInfo[s].height_percentage \in 0..100
    /\ Sum([i \in 1..3 |-> LeftRectInfo[LeftRegion[i]].height_percentage]) = 100
    /\ Sum([i \in 1..2 |-> RightRectInfo[RightRegion[i]].height_percentage])
          = 100
    /\ 100 - get_region_info("Left").width_percentage >= 0
    /\ get_region_info("Right").width_percentage
          = 100 - get_region_info("Left").width_percentage
    /\ left # None => left.info.width_percentage + right.info.width_percentage
                          = 100

\* A layout was built from the static configuration.
C9_Witness ==
    /\ pc = "draw"
    /\ rendered = <<>>
    /\ left.info.width_percentage = 25
    /\ right.info.width_percentage = 75

====
